---- MODULE Spec2Model ----
(***************************************************************************)
(* A model of the Academic Resource Hub backend (Express routes over a     *)
(* PostgreSQL pool and Supabase auth/storage) and of the Browse page's     *)
(* client-side filter.                                                     *)
(*                                                                         *)
(* Each HTTP request occupies a slot of req.  A request is cut into        *)
(* actions at the await of authMiddleware and at the awaits whose          *)
(* collaborator holds mutable state (storage upload, INSERT, COMMIT or     *)
(* ROLLBACK, signed-url creation); awaits that only read immutable data    *)
(* (reference tables, users, a row's contributor) are folded into the      *)
(* action that precedes them.                                              *)
(***************************************************************************)
EXTENDS Integers, Sequences, FiniteSets, TLC

(***************************************************************************)
(* Bounds of the model.                                                    *)
(***************************************************************************)
MaxResources == 2      \* rows of the resources table under Spec
MaxCreated == 1        \* rows of the resources table under SpecCreate
MaxListed == 4         \* rows of the resources table under SpecList
MaxTime == 1           \* distinct values Date.now() may return
MaxNameLen == 3        \* longest filename given to the sanitizer
MaxFetched == 3        \* longest list the Browse page has fetched
MaxServed == 1         \* rows of the resources table in SpecRoutes

(***************************************************************************)
(* JavaScript values of request fields: undefined, a number, or a string   *)
(* (a sequence of characters).                                             *)
(***************************************************************************)
Undef == [t |-> "undef", n |-> 0, s |-> <<>>]
Num(n) == [t |-> "num", n |-> n, s |-> <<>>]
Str(s) == [t |-> "str", n |-> 0, s |-> s]

\* `!v` is false exactly for these
Truthy(v) ==
    CASE v.t = "undef" -> FALSE
      [] v.t = "num" -> v.n # 0
      [] v.t = "str" -> Len(v.s) > 0

NaN == -1
DigitChars == <<"0", "1", "2", "3", "4", "5", "6", "7", "8", "9">>
IsDigit(c) == \E i \in 1..10 : DigitChars[i] = c
DigitVal(c) == (CHOOSE i \in 1..10 : DigitChars[i] = c) - 1

RECURSIVE LeadingDigits(_)
LeadingDigits(s) ==
    IF s = <<>> \/ ~IsDigit(Head(s)) THEN <<>>
    ELSE <<Head(s)>> \o LeadingDigits(Tail(s))

RECURSIVE DigitsValue(_)
DigitsValue(s) ==
    IF s = <<>> THEN 0
    ELSE 10 * DigitsValue(SubSeq(s, 1, Len(s) - 1)) + DigitVal(s[Len(s)])

\* parseInt(v): the leading decimal digits of the text of v, NaN if none
parseInt(v) ==
    CASE v.t = "num" -> v.n
      [] v.t = "str" -> IF LeadingDigits(v.s) = <<>> THEN NaN
                        ELSE DigitsValue(LeadingDigits(v.s))
      [] OTHER -> NaN

(***************************************************************************)
(* Reference data: the rows of the tables the handlers only read.          *)
(***************************************************************************)
NullId == 0

subjects ==
    { [id |-> 1, code |-> <<"C", "S">>, name |-> "Computer Science"],
      [id |-> 2, code |-> <<"E", "E">>, name |-> "Electrical Engineering"] }

academic_years ==
    { [id |-> 1, start_year |-> 2024, end_year |-> 2025] }

subject_offerings ==
    { [id |-> 1, subject_id |-> 1, academic_year_id |-> 1, faculty_id |-> 1] }

units ==
    { [id |-> 1, subject_offering_id |-> 1, unit_number |-> 1] }

users ==
    { [id |-> "u1", role |-> "student"],
      [id |-> "u2", role |-> "student"],
      [id |-> "a1", role |-> "admin"] }

(***************************************************************************)
(* authMiddleware.  A header is the sequence of its space-separated words; *)
(* outcome is what supabase.auth.getUser does for the request.             *)
(***************************************************************************)
NoUser == [id |-> "", email |-> "", role |-> ""]

\* the identity provider's accounts, by access token
ProviderUsers ==
    { [token |-> "t_u1", id |-> "u1", email |-> "u1@x", role |-> ""],
      [token |-> "t_u2", id |-> "u2", email |-> "u2@x", role |-> "admin"],
      [token |-> "t_a1", id |-> "a1", email |-> "a1@x", role |-> ""] }

Headers ==
    { <<>>, <<"Basic", "t_u1">>, <<"Bearer">>, <<"Bearer", "t_bad">>,
      <<"Bearer", "t_u1">>, <<"Bearer", "t_u2">>, <<"Bearer", "t_a1">> }

\* getUser(token): {data, error} for the token's account, an error whatever
\* the token (expired, revoked), or "throws" when the call itself fails
GetUserOutcomes == {"answers", "error", "throws"}

\* a faulty variant: only an absent header is refused without verification
authMiddlewareAbsentOnly(header, outcome) ==
    IF header = <<>>
    THEN [ok |-> FALSE, status |-> 401, error |-> "Missing token",
          user |-> NoUser, log |-> <<>>]
    ELSE LET token == header[Len(header)]
             found == {u \in ProviderUsers : u.token = token}
         IN  IF outcome = "throws"
             THEN [ok |-> FALSE, status |-> 401,
                   error |-> "Invalid or missing token",
                   user |-> NoUser, log |-> <<"getUser">>]
             ELSE IF outcome = "error" \/ found = {}
             THEN [ok |-> FALSE, status |-> 401, error |-> "Invalid token",
                   user |-> NoUser, log |-> <<"getUser">>]
             ELSE LET u == CHOOSE u \in found : TRUE
                  IN  [ok |-> TRUE, status |-> 0, error |-> "",
                       user |-> [id |-> u.id, email |-> u.email,
                                 role |-> IF u.role = "" THEN "student"
                                          ELSE u.role],
                       log |-> <<"getUser">>]

\* a faulty variant: a user is taken from the token although getUser failed
authMiddlewareTrusting(header, outcome) ==
    IF header = <<>> \/ Len(header) < 2 \/ header[1] # "Bearer"
    THEN [ok |-> FALSE, status |-> 401, error |-> "Missing token",
          user |-> NoUser, log |-> <<>>]
    ELSE LET token == header[2]
             found == {u \in ProviderUsers : u.token = token}
         IN  IF found = {}
             THEN [ok |-> FALSE, status |-> 401, error |-> "Invalid token",
                   user |-> NoUser, log |-> <<"getUser">>]
             ELSE LET u == CHOOSE u \in found : TRUE
                  IN  [ok |-> TRUE, status |-> 0, error |-> "",
                       user |-> [id |-> u.id, email |-> u.email,
                                 role |-> IF u.role = "" THEN "student"
                                          ELSE u.role],
                       log |-> <<"getUser">>]

authMiddleware(header, outcome) ==
    IF header = <<>> \/ Len(header) < 2 \/ header[1] # "Bearer"
    THEN [ok |-> FALSE, status |-> 401, error |-> "Missing token",
          user |-> NoUser, log |-> <<>>]
    ELSE LET token == header[2]
             found == {u \in ProviderUsers : u.token = token}
         IN  IF outcome = "throws"
             THEN [ok |-> FALSE, status |-> 401,
                   error |-> "Invalid or missing token",
                   user |-> NoUser, log |-> <<"getUser">>]
             ELSE IF outcome = "error" \/ found = {}
             THEN [ok |-> FALSE, status |-> 401, error |-> "Invalid token",
                   user |-> NoUser, log |-> <<"getUser">>]
             ELSE LET u == CHOOSE u \in found : TRUE
                  IN  [ok |-> TRUE, status |-> 0, error |-> "",
                       user |-> [id |-> u.id, email |-> u.email,
                                 role |-> IF u.role = "" THEN "student"
                                          ELSE u.role],
                       log |-> <<"getUser">>]

(***************************************************************************)
(* Entity resolution: one SELECT each, throwing when no row matches.       *)
(***************************************************************************)
Found(id) == [ok |-> TRUE, error |-> "", id |-> id]
Throw(msg) == [ok |-> FALSE, error |-> msg, id |-> NullId]

resolveSubject(subjectCode) ==
    LET rows == {r \in subjects : subjectCode.t = "str" /\ r.code = subjectCode.s}
    IN  IF rows = {} THEN Throw("Subject not found")
        ELSE Found((CHOOSE r \in rows : TRUE).id)

\* a faulty variant: the academic year is looked up by its start year alone
resolveAcademicYearByStart(startYear, endYear, nanThrows) ==
    LET rows == {r \in academic_years : r.start_year = startYear}
    IN  IF nanThrows /\ (startYear = NaN \/ endYear = NaN)
        THEN Throw("invalid input syntax")
        ELSE IF rows = {} THEN Throw("Academic year not found")
        ELSE Found((CHOOSE r \in rows : TRUE).id)

\* a NaN parameter either matches no row or is refused by the database,
\* depending on the column type: nanThrows picks the outcome
resolveAcademicYear(startYear, endYear, nanThrows) ==
    LET rows == {r \in academic_years :
                    r.start_year = startYear /\ r.end_year = endYear}
    IN  IF nanThrows /\ (startYear = NaN \/ endYear = NaN)
        THEN Throw("invalid input syntax")
        ELSE IF rows = {} THEN Throw("Academic year not found")
        ELSE Found((CHOOSE r \in rows : TRUE).id)

\* a faulty variant: the offering is looked up by the academic year alone
resolveSubjectOfferingByYear(subjectId, academicYearId) ==
    LET rows == {r \in subject_offerings :
                    r.academic_year_id = academicYearId}
    IN  IF rows = {} THEN Throw("Subject offering not found")
        ELSE Found((CHOOSE r \in rows : TRUE).id)

resolveSubjectOffering(subjectId, academicYearId) ==
    LET rows == {r \in subject_offerings :
                    r.subject_id = subjectId
                    /\ r.academic_year_id = academicYearId}
    IN  IF rows = {} THEN Throw("Subject offering not found")
        ELSE Found((CHOOSE r \in rows : TRUE).id)

resolveUnit(subjectOfferingId, unitNumber, nanThrows) ==
    LET rows == {r \in units :
                    r.subject_offering_id = subjectOfferingId
                    /\ r.unit_number = unitNumber}
    IN  IF nanThrows /\ unitNumber = NaN THEN Throw("invalid input syntax")
        ELSE IF rows = {} THEN Throw("Unit not found")
        ELSE Found((CHOOSE r \in rows : TRUE).id)

NotFoundMessages ==
    { "Subject not found", "Academic year not found",
      "Subject offering not found", "Unit not found" }

NoResolution ==
    [ok |-> FALSE, error |-> "", subject |-> NullId, year |-> NullId,
     offering |-> NullId, unit |-> NullId, lookups |-> <<>>]

\* the chain of both create handlers: subject, year, offering, then the
\* unit if unit_number is truthy; the first throw ends it
ResolveChain(b, nanThrows) ==
    LET subject == resolveSubject(b.subject_code)
        year == resolveAcademicYear(parseInt(b.start_year),
                                    parseInt(b.end_year), nanThrows)
        offering == resolveSubjectOffering(subject.id, year.id)
        unit == resolveUnit(offering.id, parseInt(b.unit_number), nanThrows)
    IN  IF ~subject.ok
        THEN [NoResolution EXCEPT !.error = subject.error,
                                  !.lookups = <<"resolveSubject">>]
        ELSE IF ~year.ok
        THEN [NoResolution EXCEPT !.error = year.error,
                                  !.subject = subject.id,
                                  !.lookups = <<"resolveSubject",
                                                "resolveAcademicYear">>]
        ELSE IF ~offering.ok
        THEN [NoResolution EXCEPT !.error = offering.error,
                                  !.subject = subject.id, !.year = year.id,
                                  !.lookups = <<"resolveSubject",
                                                "resolveAcademicYear",
                                                "resolveSubjectOffering">>]
        ELSE IF ~Truthy(b.unit_number)
        THEN [ok |-> TRUE, error |-> "", subject |-> subject.id,
              year |-> year.id, offering |-> offering.id, unit |-> NullId,
              lookups |-> <<"resolveSubject", "resolveAcademicYear",
                            "resolveSubjectOffering">>]
        ELSE [ok |-> unit.ok, error |-> unit.error, subject |-> subject.id,
              year |-> year.id, offering |-> offering.id, unit |-> unit.id,
              lookups |-> <<"resolveSubject", "resolveAcademicYear",
                            "resolveSubjectOffering", "resolveUnit">>]

(***************************************************************************)
(* Request bodies.  A body carries the JSON fields of POST /resources or   *)
(* the form fields and file part busboy collected for POST /resources/file.*)
(* fileData is TRUE when a file part was received (a Buffer, never falsy). *)
(***************************************************************************)
NoBody ==
    [title |-> Undef, description |-> Undef, subject_code |-> Undef,
     start_year |-> Undef, end_year |-> Undef, unit_number |-> Undef,
     external_url |-> Undef, fileData |-> FALSE, filename |-> Undef,
     mimeType |-> "", contributor_id |-> Undef]

LinkBase ==
    [NoBody EXCEPT !.title = Str(<<"T0">>), !.description = Str(<<"D0">>),
                   !.subject_code = Str(<<"C", "S">>),
                   !.start_year = Str(<<"2", "0", "2", "4">>),
                   !.end_year = Str(<<"2", "0", "2", "5">>),
                   !.external_url = Str(<<"http://x">>)]

FileBase ==
    [LinkBase EXCEPT !.external_url = Undef, !.fileData = TRUE,
                     !.filename = Str(<<"a", "?">>),
                     !.mimeType = "application/pdf"]

\* an upload form that also carries an external_url field
FileWithUrl == [FileBase EXCEPT !.external_url = Str(<<"http://x">>)]

\* values a field takes besides the one of the base body
FieldValues ==
    [title |-> {Undef, Str(<<>>)},
     description |-> {Undef},
     subject_code |-> {Undef, Str(<<"X", "X">>), Str(<<"E", "E">>)},
     start_year |-> {Undef, Num(0), Num(2024), Str(<<"2", "0", "2", "4", "x">>),
                     Str(<<"x">>), Str(<<"2", "0", "2", "3">>)},
     end_year |-> {Undef, Str(<<"2", "0", "3", "0">>)},
     unit_number |-> {Str(<<"1">>), Num(1), Num(0), Str(<<"0">>),
                      Str(<<"9">>), Str(<<"x">>)},
     external_url |-> {Undef}]

OneChanged(b) ==
    { [b EXCEPT ![f] = v] : <<f, v>> \in
        UNION { {f} \X FieldValues[f] : f \in DOMAIN FieldValues } }

LinkBodies ==
    {LinkBase} \cup OneChanged(LinkBase)
    \cup OneChanged([LinkBase EXCEPT !.subject_code = Str(<<"E", "E">>)])
    \cup OneChanged([LinkBase EXCEPT !.unit_number = Str(<<"9">>)])

FileBodies ==
    {FileBase} \cup { b \in OneChanged(FileBase) : b.external_url = Undef }
    \cup { b \in OneChanged([FileBase EXCEPT !.subject_code = Str(<<"E", "E">>)]) :
             b.external_url = Undef }
    \cup { [FileBase EXCEPT !.fileData = FALSE, !.filename = Undef,
                            !.mimeType = ""],
           [FileBase EXCEPT !.filename = Str(<<>>)],
           [FileBase EXCEPT !.filename = Str(<<"a", "!">>)],
           [FileBase EXCEPT !.filename = Str(<<"a", "_">>),
                            !.unit_number = Str(<<"1">>)],
           [FileBase EXCEPT !.mimeType = "image/png"] }

UpdateBodies ==
    { [NoBody EXCEPT !.title = ti, !.description = de] :
        ti \in {Undef, Str(<<"T1">>)}, de \in {Undef, Str(<<"D1">>)} }
    \cup { [NoBody EXCEPT !.title = Str(<<>>)] }

TitleBodies == { [NoBody EXCEPT !.title = Str(<<"T1">>)] }

(***************************************************************************)
(* generateStoragePath.  The path is the tuple of the pieces the template  *)
(* string joins with "/" (the last piece being timestamp "-" filename).    *)
(***************************************************************************)
LowerCase ==
    {"a", "b", "c", "d", "e", "f", "g", "h", "i", "j", "k", "l", "m",
     "n", "o", "p", "q", "r", "s", "t", "u", "v", "w", "x", "y", "z"}
UpperCase ==
    {"A", "B", "C", "D", "E", "F", "G", "H", "I", "J", "K", "L", "M",
     "N", "O", "P", "Q", "R", "S", "T", "U", "V", "W", "X", "Y", "Z"}

\* a faulty variant: the class without the dot
SafeCharsNoDot ==
    LowerCase \cup UpperCase \cup {DigitChars[i] : i \in 1..10}
    \cup {"_", "-"}

\* the class [a-zA-Z0-9._-] of the regular expression, negated there
SafeChars ==
    LowerCase \cup UpperCase \cup {DigitChars[i] : i \in 1..10}
    \cup {".", "_", "-"}

\* the characters filenames are made of here
Chars == {"a", "Z", "7", ".", "_", "-", " ", "?", "!", "/"}

RECURSIVE sanitize(_)
sanitize(name) ==
    IF name = <<>> THEN <<>>
    ELSE <<IF Head(name) \in SafeChars THEN Head(name) ELSE "_">>
         \o sanitize(Tail(name))

generateStoragePath(subjectId, offeringId, unitId, filename, timestamp) ==
    IF unitId # NullId
    THEN <<subjectId, offeringId, unitId, <<timestamp, sanitize(filename.s)>> >>
    ELSE <<subjectId, offeringId, <<timestamp, sanitize(filename.s)>> >>

(***************************************************************************)
(* State.                                                                  *)
(***************************************************************************)
VARIABLES
    resources,   \* the committed rows of the resources table, oldest first
    storage,     \* the paths of the objects in the storage bucket
    req,         \* per slot, the request being handled or last answered
    browse,      \* the state of the Browse page
    probe        \* a filename and the storage path generated for it

vars == <<resources, storage, req, browse, probe>>

\* the slots of requests; the specifications below that handle one request
\* at a time use the first only
Slots == {1, 2}
OneAtATime == {1}
Timestamps == 1..MaxTime

NoPath == <<>>

Idle ==
    [kind |-> "idle", pc |-> "idle", header |-> <<>>, getUser |-> "",
     user |-> NoUser, body |-> NoBody, rid |-> NullId, status |-> 0, error |-> "", data |-> <<>>, log |-> <<>>,
     res |-> NoResolution, path |-> NoPath, pending |-> <<>>, conn |-> FALSE]

\* the Browse page as it mounts: nothing fetched, no filter chosen
All == Str(<<"all">>)
Empty == Str(<<>>)

BrowseInit ==
    [resources |-> <<>>, selectedCourse |-> Empty, selectedUnit |-> Empty,
     typeFilter |-> All, yearFilter |-> All]

NoProbe == [filename |-> <<>>, path |-> NoPath]

Init ==
    /\ resources = <<>>
    /\ storage = {}
    /\ req = [s \in Slots |-> Idle]
    /\ browse = BrowseInit
    /\ probe = NoProbe

Free(s) == req[s].pc \in {"idle", "done"}

\* res.status(status).json(...)
Respond(r, status, error, data) ==
    [r EXCEPT !.pc = "done", !.status = status, !.error = error,
              !.data = data, !.log = @ \o <<"respond">>]

\* client.release() of the finally block
Release(r) == [r EXCEPT !.conn = FALSE, !.log = @ \o <<"release">>]

CreateKinds == {"link", "file"}

Creating == {s \in Slots : req[s].kind \in CreateKinds /\ ~Free(s)}

\* the table has room for the row of one more create request
Room(maxRows) == Len(resources) + Cardinality(Creating) < maxRows

\* a request of the given route arrives and passes through authMiddleware:
\* next() hands it to the route handler, or it is answered 401; the request
\* keeps its header and what getUser did, if it was called
Arrive(s, kind, headers) ==
    /\ Free(s)
    /\ \E header \in headers, outcome \in GetUserOutcomes :
         LET a == authMiddleware(header, outcome)
             r == [Idle EXCEPT !.kind = kind, !.log = a.log,
                               !.header = header,
                               !.getUser = IF a.log = <<>> THEN ""
                                           ELSE outcome]
         IN  req' = [req EXCEPT ![s] =
                 IF a.ok THEN [r EXCEPT !.pc = "handler", !.user = a.user]
                 ELSE Respond(r, a.status, a.error, <<>>)]
    /\ UNCHANGED <<resources, storage, browse, probe>>

ArriveCreate(s, kind, headers, maxRows) ==
    /\ Room(maxRows)
    /\ Arrive(s, kind, headers)

Handling(s, kind) == req[s].kind = kind /\ req[s].pc = "handler"

(***************************************************************************)
(* POST /resources and POST /resources/file up to the first write.         *)
(***************************************************************************)
\* a faulty variant: the validation of the file route, which has no external_url
ValidLinkFieldsNoUrl(b) ==
    /\ Truthy(b.title) /\ Truthy(b.description) /\ Truthy(b.subject_code)
    /\ Truthy(b.start_year) /\ Truthy(b.end_year)

ValidLinkFields(b) ==
    /\ Truthy(b.title) /\ Truthy(b.description) /\ Truthy(b.subject_code)
    /\ Truthy(b.start_year) /\ Truthy(b.end_year) /\ Truthy(b.external_url)

ValidFileFields(b) ==
    /\ Truthy(b.title) /\ Truthy(b.description) /\ Truthy(b.subject_code)
    /\ Truthy(b.start_year) /\ Truthy(b.end_year)

HasFile(b) == b.fileData /\ Truthy(b.filename)

\* a faulty variant: the handler goes on to the insert whatever the chain found
LinkHandlerIgnoringMiss(r, nanThrows) ==
    LET r1 == [r EXCEPT !.conn = TRUE, !.log = @ \o <<"connect">>]
        res == ResolveChain(r.body, nanThrows)
    IN  IF ~ValidLinkFields(r.body)
        THEN Release(Respond(r1, 400, "Missing required fields", <<>>))
        ELSE [r1 EXCEPT !.log = @ \o <<"BEGIN">> \o res.lookups,
                        !.res = res, !.error = res.error,
                        !.pc = "insert"]

\* pool.connect(), validation, BEGIN and the resolution chain
LinkHandler(r, nanThrows) ==
    LET r1 == [r EXCEPT !.conn = TRUE, !.log = @ \o <<"connect">>]
        res == ResolveChain(r.body, nanThrows)
    IN  IF ~ValidLinkFields(r.body)
        THEN Release(Respond(r1, 400, "Missing required fields", <<>>))
        ELSE [r1 EXCEPT !.log = @ \o <<"BEGIN">> \o res.lookups,
                        !.res = res, !.error = res.error,
                        !.pc = IF res.ok THEN "insert" ELSE "rollback"]

\* the busboy finish handler up to the upload
FileHandler(r, nanThrows, timestamp) ==
    LET r1 == [r EXCEPT !.conn = TRUE, !.log = @ \o <<"connect">>]
        res == ResolveChain(r.body, nanThrows)
    IN  IF ~ValidFileFields(r.body)
        THEN Release(Respond(r1, 400, "Missing required fields", <<>>))
        ELSE IF ~HasFile(r.body)
        THEN Release(Respond(r1, 400, "No file uploaded", <<>>))
        ELSE IF ~res.ok
        THEN [r1 EXCEPT !.log = @ \o <<"BEGIN">> \o res.lookups,
                        !.res = res, !.error = res.error, !.pc = "rollback"]
        ELSE [r1 EXCEPT !.log = @ \o <<"BEGIN">> \o res.lookups,
                        !.res = res, !.pc = "upload",
                        !.path = generateStoragePath(res.subject, res.offering,
                                     res.unit, r.body.filename, timestamp)]

PostResources(s, bodies) ==
    /\ Handling(s, "link")
    /\ \E b \in bodies, nanThrows \in BOOLEAN :
         req' = [req EXCEPT ![s] =
                   LinkHandler([@ EXCEPT !.body = b], nanThrows)]
    /\ UNCHANGED <<resources, storage, browse, probe>>

PostResourcesFile(s, bodies) ==
    /\ Handling(s, "file")
    /\ \E b \in bodies, nanThrows \in BOOLEAN, timestamp \in Timestamps :
         req' = [req EXCEPT ![s] =
                   FileHandler([@ EXCEPT !.body = b], nanThrows, timestamp)]
    /\ UNCHANGED <<resources, storage, browse, probe>>

(***************************************************************************)
(* The writes of the create handlers.                                      *)
(***************************************************************************)
\* a faulty variant: the upload replaces an object already at the path
UploadReplacing(s) ==
    /\ req[s].pc = "upload"
    /\ \E outcome \in {"stored", "error"} :
         IF outcome = "stored"
         THEN /\ storage' = storage \cup {req[s].path}
              /\ req' = [req EXCEPT ![s].pc = "insert",
                                    ![s].log = @ \o <<"upload">>]
         ELSE /\ storage' = storage
              /\ req' = [req EXCEPT ![s].pc = "rollback",
                                    ![s].error = "File upload failed",
                                    ![s].log = @ \o <<"upload">>]
    /\ UNCHANGED <<resources, browse, probe>>

\* a faulty variant: the handler goes on to the INSERT when the upload failed
UploadIgnoringError(s) ==
    /\ req[s].pc = "upload"
    /\ \E outcome \in {"stored", "error"} :
         IF outcome = "stored" /\ req[s].path \notin storage
         THEN /\ storage' = storage \cup {req[s].path}
              /\ req' = [req EXCEPT ![s].pc = "insert",
                                    ![s].log = @ \o <<"upload">>]
         ELSE /\ storage' = storage
              /\ req' = [req EXCEPT ![s].pc = "insert",
                                    ![s].log = @ \o <<"upload">>]
    /\ UNCHANGED <<resources, browse, probe>>

\* supabase.storage.from('resources').upload(path, data, {upsert: false})
Upload(s) ==
    /\ req[s].pc = "upload"
    /\ \E outcome \in {"stored", "error"} :
         IF outcome = "stored" /\ req[s].path \notin storage
         THEN /\ storage' = storage \cup {req[s].path}
              /\ req' = [req EXCEPT ![s].pc = "insert",
                                    ![s].log = @ \o <<"upload">>]
         ELSE /\ storage' = storage
              /\ req' = [req EXCEPT ![s].pc = "rollback",
                                    ![s].error = "File upload failed",
                                    ![s].log = @ \o <<"upload">>]
    /\ UNCHANGED <<resources, browse, probe>>

\* a faulty variant: both INSERTs write the body's external_url
NewRowKeepingUrl(r) ==
    [id |-> NullId, subject_id |-> r.res.subject,
     subject_offering_id |-> r.res.offering, unit_id |-> r.res.unit,
     title |-> r.body.title, description |-> r.body.description,
     resource_type |-> IF r.kind = "file" THEN "file" ELSE "external_link",
     storage_path |-> IF r.kind = "file" THEN r.path ELSE NoPath,
     external_url |-> r.body.external_url,
     contributor_id |-> r.user.id, is_deleted |-> FALSE]

\* a faulty variant: the INSERT takes the contributor the body names
NewRowNamedContributor(r) ==
    [id |-> NullId, subject_id |-> r.res.subject,
     subject_offering_id |-> r.res.offering, unit_id |-> r.res.unit,
     title |-> r.body.title, description |-> r.body.description,
     resource_type |-> IF r.kind = "file" THEN "file" ELSE "external_link",
     storage_path |-> IF r.kind = "file" THEN r.path ELSE NoPath,
     external_url |-> IF r.kind = "file" THEN Undef ELSE r.body.external_url,
     contributor_id |-> IF Truthy(r.body.contributor_id)
                        THEN r.body.contributor_id.s[1] ELSE r.user.id,
     is_deleted |-> FALSE]

\* the values of the INSERT; the id is given when the row is committed
NewRow(r) ==
    [id |-> NullId, subject_id |-> r.res.subject,
     subject_offering_id |-> r.res.offering, unit_id |-> r.res.unit,
     title |-> r.body.title, description |-> r.body.description,
     resource_type |-> IF r.kind = "file" THEN "file" ELSE "external_link",
     storage_path |-> IF r.kind = "file" THEN r.path ELSE NoPath,
     external_url |-> IF r.kind = "file" THEN Undef ELSE r.body.external_url,
     contributor_id |-> r.user.id, is_deleted |-> FALSE]

\* client.query(insertQuery, ...): the row is pending in the transaction
Insert(s) ==
    /\ req[s].pc = "insert"
    /\ \E outcome \in {"inserted", "error"} :
         req' = [req EXCEPT ![s] =
                   IF outcome = "inserted"
                   THEN [@ EXCEPT !.pc = "commit",
                                  !.pending = <<NewRow(req[s])>>,
                                  !.log = @ \o <<"INSERT">>]
                   ELSE [@ EXCEPT !.pc = "rollback",
                                  !.error = "insert failed",
                                  !.log = @ \o <<"INSERT">>]]
    /\ UNCHANGED <<resources, storage, browse, probe>>

\* the table once COMMIT has made the pending rows durable, with their ids
Committed(rows, pending) ==
    IF pending = <<>> THEN rows
    ELSE Append(rows, [pending[1] EXCEPT !.id = Len(rows) + 1])

\* client.query('COMMIT'), the 201 and the release
Commit(s) ==
    /\ req[s].pc = "commit"
    /\ \E outcome \in {"committed", "error"} :
         IF outcome = "committed"
         THEN /\ resources' = Committed(resources, req[s].pending)
              /\ req' = [req EXCEPT ![s] =
                     Release(Respond([@ EXCEPT !.pending = <<>>,
                                               !.log = @ \o <<"COMMIT">>],
                                     201, "", <<Len(resources) + 1>>))]
         ELSE /\ resources' = resources
              /\ req' = [req EXCEPT ![s].pc = "rollback",
                                    ![s].error = "commit failed",
                                    ![s].log = @ \o <<"COMMIT">>]
    /\ UNCHANGED <<storage, browse, probe>>

\* a faulty variant: the catch block makes the pending rows durable
RolledBackKeeping(rows, pending) == Committed(rows, pending)

\* the table once ROLLBACK has discarded the pending rows
RolledBack(rows, pending) == rows

\* a faulty variant: the catch block answers before it rolls back
RollbackAfterResponse(s) ==
    /\ req[s].pc = "rollback"
    /\ resources' = RolledBack(resources, req[s].pending)
    /\ req' = [req EXCEPT ![s] =
           Release([Respond([@ EXCEPT !.pending = <<>>],
                            400, req[s].error, <<>>)
                      EXCEPT !.log = @ \o <<"ROLLBACK">>])]
    /\ UNCHANGED <<storage, browse, probe>>

\* the catch block: ROLLBACK, the 400 with the error's message, the release
Rollback(s) ==
    /\ req[s].pc = "rollback"
    /\ resources' = RolledBack(resources, req[s].pending)
    /\ req' = [req EXCEPT ![s] =
           Release(Respond([@ EXCEPT !.pending = <<>>,
                                     !.log = @ \o <<"ROLLBACK">>],
                           400, req[s].error, <<>>))]
    /\ UNCHANGED <<storage, browse, probe>>

(***************************************************************************)
(* GET /resources and GET /resources/latest.                               *)
(***************************************************************************)
RECURSIVE Reverse(_)
Reverse(q) == IF q = <<>> THEN <<>> ELSE Append(Reverse(Tail(q)), Head(q))

\* a faulty variant: the WHERE clause is left out
ListedWithDeleted(r) ==
    /\ \E sub \in subjects : sub.id = r.subject_id
    /\ \E u \in users : u.id = r.contributor_id

\* FROM resources r JOIN subjects s ... JOIN users usr ...
\* WHERE r.is_deleted = false
Listed(r) ==
    /\ \E sub \in subjects : sub.id = r.subject_id
    /\ \E u \in users : u.id = r.contributor_id
    /\ r.is_deleted = FALSE

RECURSIVE Ids(_)
Ids(rows) == IF rows = <<>> THEN <<>> ELSE <<Head(rows).id>> \o Ids(Tail(rows))

\* ORDER BY r.created_at DESC: newest first; the result is given by the
\* ids of its rows
SelectResources(rows) == Ids(Reverse(SelectSeq(rows, Listed)))

LatestLimit == 3

\* a faulty variant: the limit is applied before the WHERE clause
SelectLatestLimitFirst(rows) ==
    LET newest == Reverse(rows)
        first == SubSeq(newest, 1, IF Len(newest) < LatestLimit
                                   THEN Len(newest) ELSE LatestLimit)
    IN  Ids(SelectSeq(first, Listed))

SelectLatest(rows) ==
    LET all == SelectResources(rows)
    IN  SubSeq(all, 1, IF Len(all) < LatestLimit THEN Len(all) ELSE LatestLimit)

GetResources(s) ==
    /\ Handling(s, "list")
    /\ req' = [req EXCEPT ![s] =
                 Respond([@ EXCEPT !.log = @ \o <<"SELECT">>], 200, "",
                         SelectResources(resources))]
    /\ UNCHANGED <<resources, storage, browse, probe>>

GetLatest(s) ==
    /\ Handling(s, "latest")
    /\ req' = [req EXCEPT ![s] =
                 Respond([@ EXCEPT !.log = @ \o <<"SELECT">>], 200, "",
                         SelectLatest(resources))]
    /\ UNCHANGED <<resources, storage, browse, probe>>

(***************************************************************************)
(* GET /resources/signed-url/:id.                                          *)
(***************************************************************************)
\* the ids a request may name: those of the rows the table may hold and
\* one that never has a row
RequestIds(maxRows) == 1..(maxRows + 1)

Exists(id) == id \in 1..Len(resources)

\* a faulty variant: the deletion flag is not looked at
SignedUrlLookupIgnoringFlag(r) ==
    LET r1 == [r EXCEPT !.log = @ \o <<"SELECT">>]
    IN  IF ~Exists(r.rid)
        THEN Respond(r1, 404, "Resource not found", <<>>)
        ELSE IF resources[r.rid].resource_type # "file"
        THEN Respond(r1, 400, "Resource is not a file", <<>>)
        ELSE [r1 EXCEPT !.pc = "sign", !.path = resources[r.rid].storage_path]

\* a faulty variant: the deletion flag is checked before the resource type
SignedUrlLookupDeletedFirst(r) ==
    LET r1 == [r EXCEPT !.log = @ \o <<"SELECT">>]
    IN  IF ~Exists(r.rid)
        THEN Respond(r1, 404, "Resource not found", <<>>)
        ELSE IF resources[r.rid].is_deleted
        THEN Respond(r1, 410, "Resource has been deleted", <<>>)
        ELSE IF resources[r.rid].resource_type # "file"
        THEN Respond(r1, 400, "Resource is not a file", <<>>)
        ELSE [r1 EXCEPT !.pc = "sign", !.path = resources[r.rid].storage_path]

\* SELECT ... FROM resources WHERE id = $1 and the checks on the row
SignedUrlLookup(r) ==
    LET r1 == [r EXCEPT !.log = @ \o <<"SELECT">>]
    IN  IF ~Exists(r.rid)
        THEN Respond(r1, 404, "Resource not found", <<>>)
        ELSE IF resources[r.rid].resource_type # "file"
        THEN Respond(r1, 400, "Resource is not a file", <<>>)
        ELSE IF resources[r.rid].is_deleted
        THEN Respond(r1, 410, "Resource has been deleted", <<>>)
        ELSE [r1 EXCEPT !.pc = "sign", !.path = resources[r.rid].storage_path]

GetSignedUrl(s, maxRows) ==
    /\ Handling(s, "signed")
    /\ \E id \in RequestIds(maxRows) :
         req' = [req EXCEPT ![s] = SignedUrlLookup([@ EXCEPT !.rid = id])]
    /\ UNCHANGED <<resources, storage, browse, probe>>

\* supabase.storage.from('resources').createSignedUrl(path, 300)
CreateSignedUrl(s) ==
    /\ req[s].pc = "sign"
    /\ \E outcome \in {"signed", "error"} :
         req' = [req EXCEPT ![s] =
             IF outcome = "signed" /\ req[s].path \in storage
             THEN Respond([@ EXCEPT !.log = @ \o <<"createSignedUrl">>],
                          200, "", <<req[s].rid>>)
             ELSE Respond([@ EXCEPT !.log = @ \o <<"createSignedUrl">>],
                          500, "Failed to generate signed URL", <<>>)]
    /\ UNCHANGED <<resources, storage, browse, probe>>

(***************************************************************************)
(* PUT /resources/:id and DELETE /resources/:id.                           *)
(***************************************************************************)
\* SELECT role FROM users WHERE id = $1
isAdmin(userId) == \E u \in users : u.id = userId /\ u.role = "admin"

\* a faulty variant: any user owns a resource that exists
isResourceOwnerOfAny(resourceId, userId) == Exists(resourceId)

\* SELECT contributor_id FROM resources WHERE id = $1
isResourceOwner(resourceId, userId) ==
    Exists(resourceId) /\ resources[resourceId].contributor_id = userId

\* if (!userIsAdmin && !userIsOwner) return 403
Permitted(r) == isAdmin(r.user.id) \/ isResourceOwner(r.rid, r.user.id)

\* a faulty variant: the update brings a soft-deleted row back
UpdatedRowRestoring(row, b) ==
    [row EXCEPT !.title = IF Truthy(b.title) THEN b.title ELSE @,
                !.description = IF Truthy(b.description) THEN b.description
                                ELSE @,
                !.is_deleted = FALSE]

\* a faulty variant: a field the body supplies is written even when empty
UpdatedRowBlanking(row, b) ==
    [row EXCEPT !.title = IF b.title # Undef THEN b.title ELSE @,
                !.description = IF b.description # Undef THEN b.description
                                ELSE @]

\* UPDATE resources SET title = .., description = .. WHERE id = ..:
\* the rows the statement matches, and what it makes of one
PutMatches(id) == Exists(id)

UpdatedRow(row, b) ==
    [row EXCEPT !.title = IF Truthy(b.title) THEN b.title ELSE @,
                !.description = IF Truthy(b.description) THEN b.description
                                ELSE @]

\* a faulty variant: the soft delete matches rows that are not yet deleted
DeleteMatchesLive(id) == Exists(id) /\ ~resources[id].is_deleted

\* UPDATE resources SET is_deleted = true WHERE id = $1
DeleteMatches(id) == Exists(id)

DeletedRow(row) == [row EXCEPT !.is_deleted = TRUE]

PutResource(s, maxRows, bodies) ==
    /\ Handling(s, "put")
    /\ \E id \in RequestIds(maxRows), b \in bodies :
         LET r == [req[s] EXCEPT !.rid = id, !.body = b]
             r1 == [r EXCEPT !.log = @ \o <<"isAdmin", "isResourceOwner">>]
             r2 == [r1 EXCEPT !.log = @ \o <<"UPDATE">>]
         IN  IF ~Truthy(b.title) /\ ~Truthy(b.description)
             THEN /\ req' = [req EXCEPT ![s] =
                        Respond(r, 400, "At least one field is required", <<>>)]
                  /\ resources' = resources
             ELSE IF ~Permitted(r)
             THEN /\ req' = [req EXCEPT ![s] =
                        Respond(r1, 403, "No permission to update", <<>>)]
                  /\ resources' = resources
             ELSE IF ~PutMatches(id)
             THEN /\ req' = [req EXCEPT ![s] =
                        Respond(r2, 404, "Resource not found", <<>>)]
                  /\ resources' = resources
             ELSE /\ req' = [req EXCEPT ![s] = Respond(r2, 200, "", <<id>>)]
                  /\ resources' = [resources EXCEPT
                                     ![id] = UpdatedRow(@, b)]
    /\ UNCHANGED <<storage, browse, probe>>

DeleteResource(s, maxRows) ==
    /\ Handling(s, "delete")
    /\ \E id \in RequestIds(maxRows) :
         LET r == [req[s] EXCEPT !.rid = id]
             r1 == [r EXCEPT !.log = @ \o <<"isAdmin", "isResourceOwner">>]
             r2 == [r1 EXCEPT !.log = @ \o <<"UPDATE">>]
         IN  IF ~Permitted(r)
             THEN /\ req' = [req EXCEPT ![s] =
                        Respond(r1, 403, "No permission to delete", <<>>)]
                  /\ resources' = resources
             ELSE IF ~DeleteMatches(id)
             THEN /\ req' = [req EXCEPT ![s] =
                        Respond(r2, 404, "Resource not found", <<>>)]
                  /\ resources' = resources
             ELSE /\ req' = [req EXCEPT ![s] = Respond(r2, 200, "", <<>>)]
                  /\ resources' = [resources EXCEPT ![id] = DeletedRow(@)]
    /\ UNCHANGED <<storage, browse, probe>>

(***************************************************************************)
(* Specifications.                                                         *)
(***************************************************************************)
\* headers of requests that populate the table: those of one contributor
\* and those authMiddleware refuses
OwnerHeaders == {h \in Headers : h # <<"Bearer", "t_u2">> /\ h # <<"Bearer", "t_a1">>}

\* update and delete: links contributed by u1, mutated by anyone
Next ==
    \E s \in OneAtATime :
        \/ ArriveCreate(s, "link", OwnerHeaders, MaxResources)
        \/ PostResources(s, {LinkBase})
        \/ Insert(s)
        \/ Commit(s)
        \/ Rollback(s)
        \/ Arrive(s, "put", Headers)
        \/ PutResource(s, MaxResources, UpdateBodies)
        \/ Arrive(s, "delete", Headers)
        \/ DeleteResource(s, MaxResources)

Spec == Init /\ [][Next]_vars

\* the write pipeline under every kind of create request
NextCreate ==
    \E s \in OneAtATime :
        \/ ArriveCreate(s, "link", Headers, MaxCreated)
        \/ PostResources(s, LinkBodies)
        \/ ArriveCreate(s, "file", Headers, MaxCreated)
        \/ PostResourcesFile(s, FileBodies)
        \/ Upload(s)
        \/ Insert(s)
        \/ Commit(s)
        \/ Rollback(s)

SpecCreate == Init /\ [][NextCreate]_vars

\* files and links contributed by u1, deleted and opened by anyone
NextSigned ==
    \E s \in OneAtATime :
        \/ ArriveCreate(s, "link", OwnerHeaders, MaxResources)
        \/ PostResources(s, {LinkBase})
        \/ ArriveCreate(s, "file", OwnerHeaders, MaxResources)
        \/ PostResourcesFile(s, {FileBase})
        \/ Upload(s)
        \/ Insert(s)
        \/ Commit(s)
        \/ Rollback(s)
        \/ Arrive(s, "delete", Headers)
        \/ DeleteResource(s, MaxResources)
        \/ Arrive(s, "signed", Headers)
        \/ GetSignedUrl(s, MaxResources)
        \/ CreateSignedUrl(s)

SpecSigned == Init /\ [][NextSigned]_vars

\* the list queries over links contributed by u1, retitled and deleted
NextList ==
    \E s \in OneAtATime :
        \/ ArriveCreate(s, "link", OwnerHeaders, MaxListed)
        \/ PostResources(s, {LinkBase})
        \/ Insert(s)
        \/ Commit(s)
        \/ Rollback(s)
        \/ Arrive(s, "put", OwnerHeaders)
        \/ PutResource(s, MaxListed, TitleBodies)
        \/ Arrive(s, "delete", OwnerHeaders)
        \/ DeleteResource(s, MaxListed)
        \/ Arrive(s, "list", OwnerHeaders)
        \/ GetResources(s)
        \/ Arrive(s, "latest", OwnerHeaders)
        \/ GetLatest(s)

SpecList == Init /\ [][NextList]_vars

(***************************************************************************)
(* Properties of the write pipeline (SpecCreate).                          *)
(***************************************************************************)
InLog(r, e) == \E i \in 1..Len(r.log) : r.log[i] = e

\* the handler of a create request has run on its body
Received(r) == r.kind \in CreateKinds /\ InLog(r, "connect")

PassesValidation(r) ==
    IF r.kind = "link" THEN ValidLinkFields(r.body)
    ELSE ValidFileFields(r.body) /\ HasFile(r.body)

\* the year and unit fields denote integers
Numeric(b) ==
    /\ parseInt(b.start_year) # NaN
    /\ parseInt(b.end_year) # NaN
    /\ Truthy(b.unit_number) => parseInt(b.unit_number) # NaN

\* the reference data has no subject, year, offering and (for a supplied
\* unit number) unit that fit the body together
NoMatchingRows(b) ==
    ~ \E sub \in subjects, ay \in academic_years, off \in subject_offerings :
        /\ b.subject_code = Str(sub.code)
        /\ ay.start_year = parseInt(b.start_year)
        /\ ay.end_year = parseInt(b.end_year)
        /\ off.subject_id = sub.id /\ off.academic_year_id = ay.id
        /\ Truthy(b.unit_number) =>
             \E u \in units : /\ u.subject_offering_id = off.id
                              /\ u.unit_number = parseInt(b.unit_number)

\* C1: a create request (link or file) that passes the field validation,
\* whose year and unit fields denote integers and whose subject code, year
\* pair, subject/year pairing or supplied (truthy) unit number has no
\* matching row in the reference data never reaches the upload or the
\* insert, leaves the resources table as it was in every step it takes, and
\* is answered 400 with the not-found message of the failed lookup.
C1_MissFailsWithoutRow ==
    [][\A s \in Slots :
         LET r == req'[s]
         IN  ( /\ r # req[s] /\ Received(r) /\ PassesValidation(r)
               /\ Numeric(r.body) /\ NoMatchingRows(r.body) )
             => /\ resources' = resources
                /\ r.pc \in {"rollback", "done"}
                /\ ~InLog(r, "upload") /\ ~InLog(r, "INSERT")
                /\ r.pc = "done" => /\ r.status = 400
                                    /\ r.error \in NotFoundMessages]_vars

C1_Witness ==
    \E s \in Slots :
        /\ Received(req[s]) /\ req[s].kind = "file" /\ req[s].pc = "done"
        /\ PassesValidation(req[s]) /\ NoMatchingRows(req[s].body)
        /\ req[s].status = 400 /\ req[s].error = "Unit not found"

\* one of the six required fields of POST /resources is absent or empty
MissingLinkField(b) ==
    \E f \in {"title", "description", "subject_code", "start_year",
              "end_year", "external_url"} :
        b[f] = Undef \/ b[f] = Str(<<>>)

Lookups ==
    {"resolveSubject", "resolveAcademicYear", "resolveSubjectOffering",
     "resolveUnit"}

\* C2: a POST /resources request with a missing required field is answered
\* 400 by the handler without any resolution lookup and without BEGIN.
C2_ValidationShortCircuits ==
    \A s \in Slots :
        ( /\ req[s].kind = "link" /\ Received(req[s])
          /\ MissingLinkField(req[s].body) )
        => /\ req[s].pc = "done" /\ req[s].status = 400
           /\ \A e \in Lookups \cup {"BEGIN", "INSERT", "COMMIT"} :
                ~InLog(req[s], e)

C2_Witness ==
    \E s \in Slots :
        /\ req[s].kind = "link" /\ Received(req[s])
        /\ req[s].body.external_url = Undef
        /\ Truthy(req[s].body.title) /\ Truthy(req[s].body.end_year)
        /\ req[s].status = 400

\* C3: the resources table changes only in the step of a create request
\* that commits and answers 201; so a create request that fails, also one
\* that fails after its upload has succeeded, leaves no row behind.
C3_FailedCreateLeavesNoRow ==
    [][\A s \in Slots :
         (req'[s] # req[s] /\ req'[s].kind \in CreateKinds)
         => \/ resources' = resources
            \/ /\ req'[s].pc = "done" /\ req'[s].status = 201
               /\ req[s].pc = "commit"
               /\ Len(resources') = Len(resources) + 1]_vars

\* a file create answered 400 after its upload succeeded and its row was
\* inserted in the transaction
C3_Witness ==
    \E s \in Slots :
        /\ req[s].kind = "file" /\ req[s].pc = "done" /\ req[s].status = 400
        /\ InLog(req[s], "INSERT") /\ req[s].error = "commit failed"
        /\ req[s].path \in storage
        /\ \A i \in 1..Len(resources) : resources[i].storage_path # req[s].path

(***************************************************************************)
(* Properties of update and delete (Spec).                                 *)
(***************************************************************************)
\* the step in which the handler of slot s answers its request
Answers(s, kinds) ==
    /\ req[s].pc = "handler" /\ req'[s].pc = "done" /\ req'[s].kind \in kinds

\* a PUT body that names something to update
NamesField(b) == Truthy(b.title) \/ Truthy(b.description)

AdminOrContributor(userId, row) ==
    \/ \E u \in users : u.id = userId /\ u.role = "admin"
    \/ row.contributor_id = userId

\* C4: for an existing resource and an authenticated user, a DELETE, or a
\* PUT that names a field to update, mutates the resource (and is answered
\* 200) if the user is an admin or the resource's contributor; for every
\* other user it is answered 403 and the table is unchanged.
C4_MutateIffAdminOrContributor ==
    [][\A s \in Slots :
         LET r == req'[s]
         IN  ( /\ Answers(s, {"put", "delete"}) /\ Exists(r.rid)
               /\ r.kind = "put" => NamesField(r.body) )
             => IF AdminOrContributor(r.user.id, resources[r.rid])
                THEN /\ r.status = 200
                     /\ r.kind = "delete" => resources'[r.rid].is_deleted
                     /\ (r.kind = "put" /\ Truthy(r.body.title))
                          => resources'[r.rid].title = r.body.title
                     /\ (r.kind = "put" /\ Truthy(r.body.description))
                          => resources'[r.rid].description = r.body.description
                ELSE /\ r.status = 403
                     /\ resources' = resources]_vars

\* u2, neither admin nor contributor, was refused; a1 could have mutated
C4_Witness ==
    \E s \in Slots :
        /\ req[s].kind = "put" /\ req[s].pc = "done" /\ req[s].status = 403
        /\ req[s].user.id = "u2" /\ NamesField(req[s].body)
        /\ Exists(req[s].rid)
        /\ resources[req[s].rid].contributor_id = "u1"
        /\ resources[req[s].rid].title = Str(<<"T0">>)

\* C9 (as claimed): a DELETE, or a PUT that names a field, whose id has no
\* row is answered 404 whoever the authenticated user is.
C9_AbsentIdAnswered404 ==
    \A s \in Slots :
        ( /\ req[s].kind \in {"put", "delete"} /\ req[s].pc = "done"
          /\ req[s].user # NoUser
          /\ req[s].kind = "put" => NamesField(req[s].body)
          /\ ~Exists(req[s].rid) )
        => req[s].status = 404

\* C10 (as claimed): a PUT by the contributor or an admin that names a
\* field of a soft-deleted resource is answered 404.
C10_PutOnDeletedAnswered404 ==
    \A s \in Slots :
        ( /\ req[s].kind = "put" /\ req[s].pc = "done"
          /\ req[s].user # NoUser /\ NamesField(req[s].body)
          /\ Exists(req[s].rid)
          /\ resources[req[s].rid].is_deleted
          /\ AdminOrContributor(req[s].user.id, resources[req[s].rid]) )
        => req[s].status = 404

(***************************************************************************)
(* Properties of the signed-url route (SpecSigned).                        *)
(***************************************************************************)
\* C8: a signed-url request for an existing resource of kind external_link
\* is answered 400 without createSignedUrl being called, deleted or not.
C8_LinkHasNoSignedUrl ==
    \A s \in Slots :
        ( /\ req[s].kind = "signed" /\ InLog(req[s], "SELECT")
          /\ Exists(req[s].rid)
          /\ resources[req[s].rid].resource_type = "external_link" )
        => /\ req[s].pc = "done" /\ req[s].status = 400
           /\ ~InLog(req[s], "createSignedUrl")

\* the link was soft-deleted when its signed url was asked for
C8_Witness ==
    \E s \in Slots :
        /\ req[s].kind = "signed" /\ req[s].pc = "done"
        /\ Exists(req[s].rid)
        /\ resources[req[s].rid].resource_type = "external_link"
        /\ resources[req[s].rid].is_deleted
        /\ req[s].status = 400

(***************************************************************************)
(* Properties of the list queries (SpecList).                              *)
(***************************************************************************)
Elements(q) == {q[i] : i \in 1..Len(q)}

\* C5: whatever creates, updates and deletes came before, the data of
\* GET /resources and GET /resources/latest name no row whose is_deleted
\* flag is set; and no step removes a row from the table, so the
\* soft-deleted rows are still there.
C5_DeletedNeverListed ==
    [][/\ \A s \in Slots :
            Answers(s, {"list", "latest"})
            => \A id \in Elements(req'[s].data) :
                 Exists(id) /\ ~resources[id].is_deleted
       /\ Len(resources') >= Len(resources)
       /\ \A i \in 1..Len(resources) :
            /\ resources'[i].id = resources[i].id
            /\ resources[i].is_deleted => resources'[i].is_deleted]_vars

\* a list that has rows while a soft-deleted row is in the table
C5_Witness ==
    \E s \in Slots :
        /\ req[s].kind = "list" /\ req[s].pc = "done" /\ req[s].status = 200
        /\ Len(req[s].data) >= 2
        /\ \E i \in 1..Len(resources) :
             /\ resources[i].is_deleted
             /\ i \notin Elements(req[s].data)
             /\ \E j \in Elements(req[s].data) : j < i

(***************************************************************************)
(* generateStoragePath on filenames of every shape (SpecSanitize).         *)
(***************************************************************************)
RECURSIVE Names(_)
Names(n) ==
    IF n = 0 THEN {<<>>}
    ELSE Names(n - 1)
         \cup {<<c>> \o w : c \in Chars, w \in {x \in Names(n - 1) : Len(x) = n - 1}}

\* an upload whose file has any of the names
InitSanitize ==
    /\ resources = <<>>
    /\ storage = {}
    /\ req = [s \in Slots |-> Idle]
    /\ browse = BrowseInit
    /\ probe \in {[filename |-> name, path |-> NoPath] :
                    name \in Names(MaxNameLen)}

\* generateStoragePath(subjectId, offeringId, unitId, filename) at some time
GeneratePath(unitId, timestamp) ==
    /\ probe.path = NoPath
    /\ probe' = [probe EXCEPT
                   !.path = generateStoragePath(1, 1, unitId,
                                                Str(probe.filename), timestamp)]
    /\ UNCHANGED <<resources, storage, req, browse>>

NextSanitize ==
    \E unitId \in {NullId, 1}, timestamp \in Timestamps :
        GeneratePath(unitId, timestamp)

SpecSanitize == InitSanitize /\ [][NextSanitize]_vars

\* the sanitized filename inside a generated path
SanitizedIn(path) == path[Len(path)][2]

\* C7: the sanitized filename in a generated path is as long as the
\* filename, has each character of [A-Za-z0-9._-] where the filename has
\* it and '_' at every other position, and sanitizing it again changes
\* nothing.
C7_SanitizeKeepsShape ==
    probe.path # NoPath =>
        LET name == probe.filename
            out == SanitizedIn(probe.path)
        IN  /\ Len(out) = Len(name)
            /\ \A i \in 1..Len(name) :
                 IF name[i] \in {"a", "Z", "7", ".", "_", "-"}
                 THEN out[i] = name[i]
                 ELSE out[i] = "_"
            /\ sanitize(out) = out

\* a filename with characters of both kinds, one of them the dot
C7_Witness ==
    /\ probe.path # NoPath
    /\ probe.filename = <<"a", "/", ".">>
    /\ SanitizedIn(probe.path) = <<"a", "_", ".">>

(***************************************************************************)
(* The Browse page (SpecFilter): the fetched list, the four selections,    *)
(* the options derived from the list and the filtered list.                *)
(***************************************************************************)
RECURSIVE String(_)
String(n) ==
    IF n < 10 THEN <<DigitChars[n + 1]>>
    ELSE String(n \div 10) \o <<DigitChars[(n % 10) + 1]>>

\* Number(v) of a string: its value if it is decimal digits, 0 if empty
Number(v) ==
    CASE v.t = "num" -> v.n
      [] v.t = "str" ->
           IF v.s = <<>> THEN 0
           ELSE IF \A i \in 1..Len(v.s) : IsDigit(v.s[i])
           THEN DigitsValue(v.s) ELSE NaN
      [] OTHER -> NaN

\* a === b
StrictEquals(a, b) == a = b /\ ~(a.t = "num" /\ a.n = NaN)

Resource(id, course, unit, number, title, type, year) ==
    [id |-> id, course_name |-> course, unit_id |-> unit,
     unit_number |-> number, unit_title |-> title,
     resource_type |-> type, academic_year |-> year]

\* what result.data can hold
FetchedItems ==
    { Resource(1, Str(<<"CS">>), Str(<<"u1">>), Num(1), Str(<<"Intro">>),
               Str(<<"notes">>), Num(2024)),
      Resource(2, Str(<<"CS">>), Str(<<"u2">>), Num(2), Str(<<"Trees">>),
               Str(<<"notes">>), Num(2023)),
      Resource(3, Str(<<"EE">>), Undef, Undef, Undef,
               Str(<<"lab">>), Num(2024)),
      Resource(4, Str(<<"CS">>), Str(<<"u1">>), Num(1), Str(<<"Intro">>),
               Str(<<"lab">>), Undef) }

RECURSIVE FetchedLists(_)
FetchedLists(n) ==
    IF n = 0 THEN {<<>>}
    ELSE FetchedLists(n - 1)
         \cup {Append(q, r) : q \in {x \in FetchedLists(n - 1) : Len(x) = n - 1},
                              r \in FetchedItems}

Distinct(q) == \A i, j \in 1..Len(q) : q[i].id = q[j].id => i = j

\* the options of the four selects
courses ==
    {r.course_name : r \in {x \in Elements(browse.resources) :
                              Truthy(x.course_name)}}
unitsForCourse ==
    IF Truthy(browse.selectedCourse)
    THEN {r.unit_id : r \in {x \in Elements(browse.resources) :
                               /\ StrictEquals(x.course_name, browse.selectedCourse)
                               /\ Truthy(x.unit_number)
                               /\ Truthy(x.unit_title)}}
    ELSE {}
academicYears ==
    {r.academic_year : r \in {x \in Elements(browse.resources) :
                                Truthy(x.academic_year)}}
resourceTypes ==
    {r.resource_type : r \in {x \in Elements(browse.resources) :
                                Truthy(x.resource_type)}}

\* a faulty variant: the year selection is compared as text
filteredByYearText ==
    LET byCourse(r) == \/ ~Truthy(browse.selectedCourse)
                       \/ StrictEquals(r.course_name, browse.selectedCourse)
        byUnit(r) == \/ ~Truthy(browse.selectedUnit)
                     \/ StrictEquals(r.unit_id, browse.selectedUnit)
        byType(r) == \/ StrictEquals(browse.typeFilter, All)
                     \/ StrictEquals(r.resource_type, browse.typeFilter)
        byYear(r) == \/ StrictEquals(browse.yearFilter, All)
                     \/ StrictEquals(r.academic_year, browse.yearFilter)
    IN  SelectSeq(SelectSeq(SelectSeq(SelectSeq(browse.resources, byCourse),
                                      byUnit), byType), byYear)

\* resources.filter(course).filter(unit).filter(type).filter(year)
filteredResources ==
    LET byCourse(r) == \/ ~Truthy(browse.selectedCourse)
                       \/ StrictEquals(r.course_name, browse.selectedCourse)
        byUnit(r) == \/ ~Truthy(browse.selectedUnit)
                     \/ StrictEquals(r.unit_id, browse.selectedUnit)
        byType(r) == \/ StrictEquals(browse.typeFilter, All)
                     \/ StrictEquals(r.resource_type, browse.typeFilter)
        byYear(r) == \/ StrictEquals(browse.yearFilter, All)
                     \/ StrictEquals(r.academic_year,
                                     Num(Number(browse.yearFilter)))
    IN  SelectSeq(SelectSeq(SelectSeq(SelectSeq(browse.resources, byCourse),
                                      byUnit), byType), byYear)

\* setResources(result.data || [])
fetchResources(data) ==
    /\ Distinct(data)
    /\ browse' = [browse EXCEPT !.resources = data]
    /\ UNCHANGED <<resources, storage, req, probe>>

handleCourseChange(course) ==
    /\ course \in {Empty} \cup courses
    /\ browse' = [browse EXCEPT !.selectedCourse = course,
                                !.selectedUnit = Empty,
                                !.typeFilter = All,
                                !.yearFilter = All]
    /\ UNCHANGED <<resources, storage, req, probe>>

\* a faulty variant: a new unit keeps the year filter
handleUnitChangeKeepingYear(unit) ==
    /\ Truthy(browse.selectedCourse)
    /\ unit \in {Empty} \cup unitsForCourse
    /\ browse' = [browse EXCEPT !.selectedUnit = unit,
                                !.typeFilter = All]
    /\ UNCHANGED <<resources, storage, req, probe>>

\* the unit select is disabled while no course is selected
handleUnitChange(unit) ==
    /\ Truthy(browse.selectedCourse)
    /\ unit \in {Empty} \cup unitsForCourse
    /\ browse' = [browse EXCEPT !.selectedUnit = unit,
                                !.typeFilter = All,
                                !.yearFilter = All]
    /\ UNCHANGED <<resources, storage, req, probe>>

setTypeFilter(type) ==
    /\ type \in {All} \cup resourceTypes
    /\ browse' = [browse EXCEPT !.typeFilter = type]
    /\ UNCHANGED <<resources, storage, req, probe>>

\* the value of a year option is the text of the year
setYearFilter(year) ==
    /\ year \in {All} \cup {Str(String(y.n)) : y \in academicYears}
    /\ browse' = [browse EXCEPT !.yearFilter = year]
    /\ UNCHANGED <<resources, storage, req, probe>>

\* the Clear Filters button
clearFilters ==
    /\ \/ Truthy(browse.selectedCourse)
       \/ ~StrictEquals(browse.typeFilter, All)
       \/ ~StrictEquals(browse.yearFilter, All)
    /\ browse' = [browse EXCEPT !.selectedCourse = Empty,
                                !.selectedUnit = Empty,
                                !.typeFilter = All,
                                !.yearFilter = All]
    /\ UNCHANGED <<resources, storage, req, probe>>

CourseValues == {Empty} \cup {r.course_name : r \in FetchedItems}
UnitValues == {Empty} \cup {r.unit_id : r \in FetchedItems}
TypeValues == {All} \cup {r.resource_type : r \in FetchedItems}
YearValues ==
    {All} \cup {Str(String(r.academic_year.n)) :
                  r \in {x \in FetchedItems : Truthy(x.academic_year)}}

NextFilter ==
    \/ \E data \in FetchedLists(MaxFetched) : fetchResources(data)
    \/ \E course \in CourseValues : handleCourseChange(course)
    \/ \E unit \in UnitValues : handleUnitChange(unit)
    \/ \E type \in TypeValues : setTypeFilter(type)
    \/ \E year \in YearValues : setYearFilter(year)
    \/ clearFilters

SpecFilter == Init /\ [][NextFilter]_vars

\* a fetched resource matches the active selections: the course and unit
\* selected unless empty, the type selected unless "all", and the year
\* whose text is the selection unless that is "all"
MatchesActiveFilters(r) ==
    /\ browse.selectedCourse # Empty => r.course_name = browse.selectedCourse
    /\ browse.selectedUnit # Empty => r.unit_id = browse.selectedUnit
    /\ browse.typeFilter # All => r.resource_type = browse.typeFilter
    /\ browse.yearFilter # All =>
         /\ r.academic_year.t = "num"
         /\ String(r.academic_year.n) = browse.yearFilter.s

\* C6: the filtered list holds exactly the fetched resources that match
\* every active filter (an empty course or unit and "all" for type or
\* year always pass), in the order of the fetched list.
C6_FilterIsConjunction ==
    LET fetched == browse.resources
        kept == {i \in 1..Len(fetched) : MatchesActiveFilters(fetched[i])}
    IN  /\ Len(filteredResources) = Cardinality(kept)
        /\ \E pos \in [1..Len(filteredResources) -> 1..Len(fetched)] :
             /\ \A a, b \in 1..Len(filteredResources) :
                  a < b => pos[a] < pos[b]
             /\ {pos[a] : a \in 1..Len(filteredResources)} = kept
             /\ \A a \in 1..Len(filteredResources) :
                  filteredResources[a] = fetched[pos[a]]

\* course and year chosen over a list of three of which the first and the
\* last pass the course filter and only the last the year filter as well
C6_Witness ==
    /\ Len(browse.resources) = 3
    /\ browse.resources[1].id = 2 /\ browse.resources[2].id = 3
    /\ browse.resources[3].id = 1
    /\ browse.selectedCourse = Str(<<"CS">>)
    /\ browse.yearFilter = Str(<<"2", "0", "2", "4">>)
    /\ Len(filteredResources) = 1
    /\ filteredResources[1].id = 1

(***************************************************************************)
(* Soft deletion over sequences of create, update and delete requests      *)
(* (Spec).                                                                 *)
(***************************************************************************)
\* C11: in every step of every endpoint, each row of the resources table
\* is still in the table afterwards, under the same id, and a row whose
\* is_deleted flag is set still has it set.
C11_DeletedStaysDeleted ==
    [][/\ Len(resources') >= Len(resources)
       /\ \A i \in 1..Len(resources) :
            /\ resources'[i].id = resources[i].id
            /\ resources[i].is_deleted => resources'[i].is_deleted]_vars

\* a soft-deleted resource was updated by its contributor and is still
\* soft-deleted
C11_Witness ==
    \E s \in Slots :
        /\ req[s].kind = "put" /\ req[s].pc = "done" /\ req[s].status = 200
        /\ Exists(req[s].rid)
        /\ resources[req[s].rid].is_deleted
        /\ resources[req[s].rid].title = Str(<<"T1">>)

(***************************************************************************)
(* All seven routes behind authMiddleware (SpecRoutes): files and links    *)
(* of one contributor, and requests with every kind of header.             *)
(***************************************************************************)
NextRoutes ==
    \E s \in OneAtATime :
        \/ ArriveCreate(s, "link", OwnerHeaders, MaxServed)
        \/ PostResources(s, {LinkBase})
        \/ ArriveCreate(s, "file", OwnerHeaders, MaxServed)
        \/ PostResourcesFile(s, {FileBase, FileWithUrl})
        \/ Upload(s)
        \/ Insert(s)
        \/ Commit(s)
        \/ Rollback(s)
        \/ Arrive(s, "put", OwnerHeaders)
        \/ PutResource(s, MaxServed, TitleBodies)
        \/ Arrive(s, "delete", OwnerHeaders)
        \/ DeleteResource(s, MaxServed)
        \/ Arrive(s, "list", OwnerHeaders)
        \/ GetResources(s)
        \/ Arrive(s, "latest", OwnerHeaders)
        \/ GetLatest(s)
        \/ Arrive(s, "signed", OwnerHeaders)
        \/ GetSignedUrl(s, MaxServed)
        \/ CreateSignedUrl(s)

SpecRoutes == Init /\ [][NextRoutes]_vars

Routes == {"list", "latest", "link", "file", "signed", "put", "delete"}

\* the header is absent or does not start with "Bearer "
NoBearer(header) == header = <<>> \/ header[1] # "Bearer" \/ Len(header) = 1

\* what a request refused by authMiddleware has done: nothing of its route
\* handler, and only the response after the verification, if any
OnlyRefused(r) ==
    /\ r.pc = "done" /\ r.status = 401 /\ r.user = NoUser
    /\ \A i \in 1..Len(r.log) : r.log[i] \in {"getUser", "respond"}

\* C12: a request to any route whose Authorization header is absent or
\* does not start with "Bearer " is answered 401, getUser is not called
\* for it and its route handler does nothing.
C12_NoBearerRefusedUnverified ==
    \A s \in Slots :
        (req[s].kind \in Routes /\ NoBearer(req[s].header))
        => /\ OnlyRefused(req[s])
           /\ ~InLog(req[s], "getUser")
           /\ req[s].getUser = ""

\* a file upload sent with a Basic header
C12_Witness ==
    \E s \in Slots :
        /\ req[s].kind = "file" /\ req[s].header = <<"Basic", "t_u1">>
        /\ req[s].pc = "done" /\ req[s].status = 401

\* C13: on each of the seven routes, a request whose token getUser
\* answers with an error or with no user, or on which getUser throws, is
\* answered 401, and its handler performs no database or storage operation.
C13_UnverifiedTokenRefused ==
    \A s \in Slots :
        LET r == req[s]
            known == \E u \in ProviderUsers : u.token = r.header[2]
        IN  ( /\ r.kind \in Routes /\ ~NoBearer(r.header)
              /\ r.getUser \in {"error", "throws"} \/ ~known )
            => /\ OnlyRefused(r)
               /\ r.log = <<"getUser", "respond">>

\* a delete with the token of u1 on which getUser threw, while the table
\* has a row of u1 the request could have deleted
C13_Witness ==
    \E s \in Slots :
        /\ req[s].kind = "delete" /\ req[s].header = <<"Bearer", "t_u1">>
        /\ req[s].getUser = "throws"
        /\ req[s].pc = "done" /\ req[s].status = 401
        /\ Len(resources) = 1 /\ ~resources[1].is_deleted

(***************************************************************************)
(* The uploaded part's MIME type (SpecCreate).                             *)
(***************************************************************************)
\* C14 (as claimed): a POST /resources/file whose file part declares a MIME
\* type other than application/pdf is answered 400 with no resolution
\* lookup, no storage upload and no INSERT made for it.
C14_NonPdfRejectedEarly ==
    \A s \in Slots :
        ( /\ req[s].kind = "file" /\ Received(req[s])
          /\ req[s].body.fileData
          /\ req[s].body.mimeType # "application/pdf" )
        => /\ \A e \in Lookups : ~InLog(req[s], e)
           /\ ~InLog(req[s], "upload") /\ ~InLog(req[s], "INSERT")
           /\ req[s].pc = "done" /\ req[s].status = 400

(***************************************************************************)
(* Signed urls of deleted and of absent resources (SpecSigned).            *)
(***************************************************************************)
\* C15: a signed-url request for a file resource whose is_deleted flag is
\* set is answered 410 without createSignedUrl being called; one for an id
\* that has no row is answered 404.
C15_DeletedFileGoneAbsentNotFound ==
    \A s \in Slots :
        LET r == req[s]
        IN  (r.kind = "signed" /\ InLog(r, "SELECT"))
            => /\ ( /\ Exists(r.rid)
                    /\ resources[r.rid].resource_type = "file"
                    /\ resources[r.rid].is_deleted )
                  => /\ r.pc = "done" /\ r.status = 410
                     /\ ~InLog(r, "createSignedUrl")
               /\ ~Exists(r.rid)
                  => /\ r.pc = "done" /\ r.status = 404
                     /\ ~InLog(r, "createSignedUrl")

\* the file is soft-deleted and its object is still in the bucket
C15_Witness ==
    \E s \in Slots :
        /\ req[s].kind = "signed" /\ req[s].pc = "done"
        /\ req[s].status = 410
        /\ Exists(req[s].rid)
        /\ resources[req[s].rid].resource_type = "file"
        /\ resources[req[s].rid].is_deleted
        /\ resources[req[s].rid].storage_path \in storage

\* C16: every row of the resources table is a file with a storage path and
\* no external url, or an external link with an external url and no
\* storage path, in every state that creates, updates and deletes lead to.
C16_KindFixesPathAndUrl ==
    \A i \in 1..Len(resources) :
        \/ /\ resources[i].resource_type = "file"
           /\ resources[i].storage_path # NoPath
           /\ resources[i].external_url = Undef
        \/ /\ resources[i].resource_type = "external_link"
           /\ resources[i].external_url # Undef
           /\ resources[i].storage_path = NoPath

\* a file that has been retitled and then soft-deleted
C16_Witness ==
    /\ Len(resources) = 1
    /\ resources[1].resource_type = "file"
    /\ resources[1].title # Str(<<"T0">>)
    /\ resources[1].is_deleted
    /\ \E s \in Slots : req[s].kind = "delete" /\ req[s].status = 200

IsLookup(e) == e \in Lookups

\* the lookups the reference data lets a body get through: up to the
\* first that has no row, the unit's only for a truthy unit number
LookupsDue(b) ==
    LET subs == {sub \in subjects : b.subject_code = Str(sub.code)}
        years == {ay \in academic_years :
                    /\ ay.start_year = parseInt(b.start_year)
                    /\ ay.end_year = parseInt(b.end_year)}
        offs == {off \in subject_offerings :
                   \E sub \in subs, ay \in years :
                      off.subject_id = sub.id /\ off.academic_year_id = ay.id}
    IN  IF subs = {} THEN <<"resolveSubject">>
        ELSE IF years = {} THEN <<"resolveSubject", "resolveAcademicYear">>
        ELSE IF offs = {} \/ ~Truthy(b.unit_number)
        THEN <<"resolveSubject", "resolveAcademicYear",
               "resolveSubjectOffering">>
        ELSE <<"resolveSubject", "resolveAcademicYear",
               "resolveSubjectOffering", "resolveUnit">>

\* C18: the lookups a create request has executed are, in this order,
\* subject, academic year, subject offering and unit, each once, up to the
\* first that finds no row; after a lookup that finds no row the request
\* executes no upload and no insert; and the unit lookup is executed only
\* for a request that supplies a unit number.
C18_LookupsInOrderUntilMiss ==
    \A s \in Slots :
        LET r == req[s]
        IN  Received(r)
            => /\ SelectSeq(r.log, IsLookup) =
                    IF PassesValidation(r) THEN LookupsDue(r.body) ELSE <<>>
               /\ (PassesValidation(r) /\ NoMatchingRows(r.body))
                    => ~InLog(r, "upload") /\ ~InLog(r, "INSERT")
               /\ InLog(r, "resolveUnit") => r.body.unit_number # Undef

\* the subject has no offering in the year: three lookups, and none for
\* the unit number the request supplies
C18_Witness ==
    \E s \in Slots :
        /\ req[s].kind = "link" /\ req[s].pc = "done" /\ req[s].status = 400
        /\ req[s].error = "Subject offering not found"
        /\ Truthy(req[s].body.unit_number)
        /\ InLog(req[s], "resolveSubjectOffering")
        /\ ~InLog(req[s], "resolveUnit")

(***************************************************************************)
(* The transaction and the connection of a create request, ROLLBACK        *)
(* itself failing included (SpecFault).                                    *)
(***************************************************************************)
\* bodies that take the handlers down each of their paths
PathLinkBodies ==
    { LinkBase, [LinkBase EXCEPT !.title = Undef],
      [LinkBase EXCEPT !.subject_code = Str(<<"X", "X">>)] }

PathFileBodies ==
    { FileBase, [FileBase EXCEPT !.description = Undef],
      [FileBase EXCEPT !.fileData = FALSE, !.filename = Undef,
                       !.mimeType = ""],
      [FileBase EXCEPT !.end_year = Str(<<"2", "0", "3", "0">>)] }

\* a faulty variant: the connection is not released when ROLLBACK throws
RollbackFailsLeaking(s) ==
    /\ req[s].pc = "rollback"
    /\ req' = [req EXCEPT ![s] =
                 [@ EXCEPT !.pc = "done", !.pending = <<>>,
                           !.log = @ \o <<"ROLLBACK">>]]
    /\ UNCHANGED <<resources, storage, browse, probe>>

\* the catch block when client.query('ROLLBACK') throws: the 400 is never
\* sent, the finally block releases the connection, and the transaction
\* ends with the connection, its pending rows discarded
RollbackFails(s) ==
    /\ req[s].pc = "rollback"
    /\ req' = [req EXCEPT ![s] =
                 Release([@ EXCEPT !.pc = "done", !.pending = <<>>,
                                   !.log = @ \o <<"ROLLBACK">>])]
    /\ UNCHANGED <<resources, storage, browse, probe>>

\* pool.connect() rejects in the 'finish' callback of the file route, before
\* the try block: nothing is acquired and no response is sent
ConnectFails(s) ==
    /\ Handling(s, "file")
    /\ req' = [req EXCEPT ![s].pc = "done",
                          ![s].log = @ \o <<"connectFailed">>]
    /\ UNCHANGED <<resources, storage, browse, probe>>

\* busboy.on('error'): the form cannot be parsed and the 500 is sent
BusboyError(s) ==
    /\ Handling(s, "file")
    /\ req' = [req EXCEPT ![s] = Respond(@, 500, "File upload failed", <<>>)]
    /\ UNCHANGED <<resources, storage, browse, probe>>

NextFault ==
    \E s \in OneAtATime :
        \/ ArriveCreate(s, "link", OwnerHeaders, MaxResources)
        \/ PostResources(s, PathLinkBodies)
        \/ ArriveCreate(s, "file", OwnerHeaders, MaxResources)
        \/ PostResourcesFile(s, PathFileBodies)
        \/ Upload(s)
        \/ Insert(s)
        \/ Commit(s)
        \/ Rollback(s)
        \/ RollbackFails(s)
        \/ ConnectFails(s)
        \/ BusboyError(s)

SpecFault == Init /\ [][NextFault]_vars

\* where e is first in the log of r, 0 if nowhere
Pos(r, e) ==
    IF InLog(r, e) THEN CHOOSE i \in 1..Len(r.log) :
                          /\ r.log[i] = e
                          /\ \A j \in 1..(i - 1) : r.log[j] # e
    ELSE 0

Count(r, e) == Cardinality({i \in 1..Len(r.log) : r.log[i] = e})

\* a resolution, the upload or the insert of r has failed
StepFailed(r) ==
    /\ InLog(r, "BEGIN")
    /\ \/ r.res.lookups # <<>> /\ ~r.res.ok
       \/ r.error \in {"File upload failed", "insert failed"}

\* C19: for a create request of which a resolution, the upload or the
\* insert failed after BEGIN, COMMIT is never issued, ROLLBACK has been
\* issued when the request ends, and an error response is sent only after
\* ROLLBACK; COMMIT is issued only after the INSERT, for a request none of
\* whose steps failed, and the 201 is sent only after COMMIT.
C19_RollbackBeforeErrorCommitBefore201 ==
    \A s \in Slots :
        LET r == req[s]
        IN  r.kind \in CreateKinds
            => /\ StepFailed(r)
                  => /\ ~InLog(r, "COMMIT")
                     /\ r.pc = "done" => InLog(r, "ROLLBACK")
                     /\ InLog(r, "respond")
                          => /\ r.status = 400
                             /\ InLog(r, "ROLLBACK")
                             /\ Pos(r, "ROLLBACK") < Pos(r, "respond")
               /\ InLog(r, "COMMIT")
                  => /\ ~StepFailed(r)
                     /\ InLog(r, "INSERT")
                     /\ Pos(r, "INSERT") < Pos(r, "COMMIT")
               /\ r.status = 201
                  => /\ InLog(r, "COMMIT")
                     /\ Pos(r, "COMMIT") < Pos(r, "respond")

\* a file whose upload succeeded and whose insert failed: rolled back,
\* then answered 400, the object left in the bucket
C19_Witness ==
    \E s \in Slots :
        /\ req[s].kind = "file" /\ req[s].pc = "done"
        /\ req[s].error = "insert failed" /\ req[s].status = 400
        /\ InLog(req[s], "upload")
        /\ Pos(req[s], "ROLLBACK") < Pos(req[s], "respond")

\* C20: a create request acquires at most one connection and releases it
\* exactly once by the time it ends, whichever way it ends; when no request
\* is being handled, no connection is checked out.
C20_ConnectionReleasedOnce ==
    /\ \A s \in Slots :
         LET r == req[s]
         IN  r.kind \in CreateKinds
             => /\ Count(r, "connect") <= 1
                /\ Count(r, "release") <= Count(r, "connect")
                /\ r.conn <=> Count(r, "connect") > Count(r, "release")
                /\ r.pc = "done"
                     => Count(r, "release") = Count(r, "connect")
    /\ (\A s \in Slots : Free(s)) => \A s \in Slots : ~req[s].conn

\* ROLLBACK threw after a failed lookup: no response, connection released
C20_Witness ==
    \E s \in Slots :
        /\ req[s].kind = "link" /\ req[s].pc = "done" /\ req[s].status = 0
        /\ InLog(req[s], "ROLLBACK") /\ ~InLog(req[s], "respond")
        /\ Count(req[s], "connect") = 1 /\ Count(req[s], "release") = 1
        /\ ~req[s].conn

(***************************************************************************)
(* Two file uploads in flight at once (SpecConc).  The handlers' awaits    *)
(* are the points at which the requests interleave.                        *)
(***************************************************************************)
\* forms whose filenames are sanitized to the same name, and one to another
SameNameFileBodies ==
    { FileBase, [FileBase EXCEPT !.filename = Str(<<"a", "!">>)],
      [FileBase EXCEPT !.filename = Str(<<"Z">>)] }

ContributorHeader == {<<"Bearer", "t_u1">>}

NextConc ==
    \E s \in Slots :
        \/ ArriveCreate(s, "file", ContributorHeader, MaxResources)
        \/ PostResourcesFile(s, SameNameFileBodies)
        \/ Upload(s)
        \/ Insert(s)
        \/ Commit(s)
        \/ Rollback(s)

SpecConc == Init /\ [][NextConc]_vars

\* C21: an upload to a path that already holds an object leaves the bucket
\* as it is and fails the request with an upload error, the request going
\* on to ROLLBACK without an INSERT; no step takes an object out of the
\* bucket; and two file rows never have the same storage path.
C21_StoredObjectNeverReplaced ==
    [][/\ storage \subseteq storage'
       /\ \A s \in Slots :
            (req[s].pc = "upload" /\ req'[s].pc # "upload"
               /\ req[s].path \in storage)
            => /\ storage' = storage
               /\ req'[s].pc = "rollback"
               /\ req'[s].error = "File upload failed"
               /\ ~InLog(req'[s], "INSERT")
       /\ \A i, j \in 1..Len(resources') :
            ( /\ i # j
              /\ resources'[i].resource_type = "file"
              /\ resources'[j].resource_type = "file" )
            => resources'[i].storage_path # resources'[j].storage_path]_vars

\* two requests in flight computed the same path from different filenames;
\* one stored its file and has its row, the other failed at its upload
C21_Witness ==
    \E s, o \in Slots :
        /\ s # o
        /\ req[s].kind = "file" /\ req[o].kind = "file"
        /\ req[s].path = req[o].path /\ req[s].path # NoPath
        /\ req[s].body.filename # req[o].body.filename
        /\ req[s].status = 201
        /\ req[o].pc = "done" /\ req[o].status = 400
        /\ req[o].error = "File upload failed"
        /\ Pos(req[o], "BEGIN") > 0
        /\ Len(resources) = 1


(***************************************************************************)
(* Requests whose body names a contributor (SpecOwner): the handlers       *)
(* destructure the fields they use and never read contributor_id.          *)
(***************************************************************************)
NamedContributor == Str(<<"a1">>)

NamingLinkBodies == {LinkBase, [LinkBase EXCEPT !.contributor_id = NamedContributor]}

NamingFileBodies == {FileBase, [FileBase EXCEPT !.contributor_id = NamedContributor]}

NamingUpdateBodies ==
    { [NoBody EXCEPT !.title = Str(<<"T1">>), !.contributor_id = c] :
        c \in {Undef, NamedContributor} }

ContributorOrAdminHeaders == {<<"Bearer", "t_u1">>, <<"Bearer", "t_a1">>}

NextOwner ==
    \E s \in OneAtATime :
        \/ ArriveCreate(s, "link", ContributorOrAdminHeaders, MaxServed)
        \/ ArriveCreate(s, "file", ContributorOrAdminHeaders, MaxServed)
        \/ PostResources(s, NamingLinkBodies)
        \/ PostResourcesFile(s, NamingFileBodies)
        \/ Upload(s)
        \/ Insert(s)
        \/ Commit(s)
        \/ Rollback(s)
        \/ Arrive(s, "put", ContributorOrAdminHeaders)
        \/ PutResource(s, MaxServed, NamingUpdateBodies)
        \/ Arrive(s, "delete", ContributorOrAdminHeaders)
        \/ DeleteResource(s, MaxServed)

SpecOwner == Init /\ [][NextOwner]_vars

\* the id of the account the identity provider holds for the header's token
VerifiedId(header) ==
    (CHOOSE u \in ProviderUsers : u.token = header[2]).id

PartialUpdateBodies ==
    { [NoBody EXCEPT !.title = ti, !.description = de] :
        ti \in {Str(<<>>), Str(<<"T1">>)},
        de \in {Undef, Str(<<>>), Str(<<"D1">>)} }

NextUpdate ==
    \E s \in OneAtATime :
        \/ ArriveCreate(s, "link", ContributorHeader, MaxResources)
        \/ ArriveCreate(s, "file", ContributorHeader, MaxResources)
        \/ PostResources(s, {LinkBase})
        \/ PostResourcesFile(s, {FileBase})
        \/ Upload(s)
        \/ Insert(s)
        \/ Commit(s)
        \/ Rollback(s)
        \/ Arrive(s, "put", ContributorHeader)
        \/ PutResource(s, MaxResources, PartialUpdateBodies)
        \/ Arrive(s, "delete", ContributorHeader)
        \/ DeleteResource(s, MaxResources)

SpecUpdate == Init /\ [][NextUpdate]_vars

\* a body value that is a non-empty string
NonEmpty(v) == v.t = "str" /\ v.s # <<>>

\* the fields of a resource row other than title and description
FrameFields ==
    {"id", "subject_id", "subject_offering_id", "unit_id", "resource_type",
     "storage_path", "external_url", "contributor_id", "is_deleted"}

\* C23: a PUT answered 200 leaves the table's length, every other row and
\* the bucket as they were; in the addressed row every field other than
\* title and description is unchanged, and title (description) becomes the
\* body's value when the body supplies a non-empty one and is unchanged
\* otherwise.
C23_PutChangesOnlySuppliedFields ==
    [][\A s \in Slots :
         (Answers(s, {"put"}) /\ req'[s].status = 200)
         => LET id == req'[s].rid
                b == req'[s].body
            IN  /\ DOMAIN resources' = DOMAIN resources
                /\ id \in DOMAIN resources
                /\ storage' = storage
                /\ \A i \in DOMAIN resources :
                     i # id => resources'[i] = resources[i]
                /\ \A f \in FrameFields :
                     resources'[id][f] = resources[id][f]
                /\ resources'[id].title =
                     IF NonEmpty(b.title) THEN b.title
                     ELSE resources[id].title
                /\ resources'[id].description =
                     IF NonEmpty(b.description) THEN b.description
                     ELSE resources[id].description]_vars

\* a PUT on the file row with an empty title and a description was answered
\* 200: the description is the body's, the title is the one it was created
\* with, and the link row next to it is as created
C23_Witness ==
    \E s \in Slots :
        /\ req[s].kind = "put" /\ req[s].pc = "done" /\ req[s].status = 200
        /\ req[s].body.title = Str(<<>>)
        /\ req[s].body.description = Str(<<"D1">>)
        /\ Len(resources) = 2
        /\ LET id == req[s].rid
               other == 3 - id
           IN  /\ resources[id].resource_type = "file"
               /\ resources[id].title = Str(<<"T0">>)
               /\ resources[id].description = Str(<<"D1">>)
               /\ resources[other].resource_type = "external_link"
               /\ resources[other].description = Str(<<"D0">>)


\* the reference rows a resource row points at
SubjectOf(row) == {x \in subjects : x.id = row.subject_id}

OfferingOf(row) == {o \in subject_offerings : o.id = row.subject_offering_id}

UnitOf(row) == {u \in units : u.id = row.unit_id}

\* the academic year with the start and end years a body asks for
RequestedYear(b) ==
    {y \in academic_years : /\ y.start_year = parseInt(b.start_year)
                            /\ y.end_year = parseInt(b.end_year)}

C25_AttachedRoleDecidesAdmin ==
    \A s \in Slots :
        ( /\ req[s].kind \in {"put", "delete"} /\ req[s].pc = "done"
          /\ req[s].user # NoUser /\ Exists(req[s].rid)
          /\ req[s].kind = "put" => NamesField(req[s].body) )
        => /\ req[s].user.role = "admin" => req[s].status = 200
           /\ (req[s].user.role # "admin" /\ req[s].status = 200)
              => resources[req[s].rid].contributor_id = req[s].user.id


\* C26: a step of handleCourseChange leaves the unit selection empty and
\* the type and year filters "all"; a step of handleUnitChange leaves the
\* type and year filters "all" and the course selection as it was; a
\* step of setTypeFilter (setYearFilter) leaves the course, the unit and
\* the year (type) filter as they were; and each leaves the fetched list.
C26_SelectionsCascade ==
    [][/\ (\E course \in CourseValues : handleCourseChange(course))
          => /\ browse'.selectedUnit = Empty
             /\ browse'.typeFilter = All /\ browse'.yearFilter = All
             /\ browse'.resources = browse.resources
       /\ (\E unit \in UnitValues : handleUnitChange(unit))
          => /\ browse'.typeFilter = All /\ browse'.yearFilter = All
             /\ browse'.selectedCourse = browse.selectedCourse
             /\ browse'.resources = browse.resources
       /\ (\E type \in TypeValues : setTypeFilter(type))
          => /\ browse'.selectedCourse = browse.selectedCourse
             /\ browse'.selectedUnit = browse.selectedUnit
             /\ browse'.yearFilter = browse.yearFilter
             /\ browse'.resources = browse.resources
       /\ (\E year \in YearValues : setYearFilter(year))
          => /\ browse'.selectedCourse = browse.selectedCourse
             /\ browse'.selectedUnit = browse.selectedUnit
             /\ browse'.typeFilter = browse.typeFilter
             /\ browse'.resources = browse.resources]_vars

\* a course, then a unit, then a type and a year were chosen: the type and
\* year changes kept the course and the unit, which had reset both filters
C26_Witness ==
    /\ browse.selectedCourse # Empty /\ browse.selectedUnit # Empty
    /\ browse.typeFilter # All /\ browse.yearFilter # All


\* C27 (as claimed): a file upload request that passed authMiddleware and
\* whose handler has ended was sent exactly one response.
C27_FileRequestAnsweredOnce ==
    \A s \in Slots :
        ( /\ req[s].kind = "file" /\ req[s].pc = "done"
          /\ req[s].user # NoUser )
        => /\ Count(req[s], "respond") = 1
           /\ req[s].status # 0


(***************************************************************************)
(* A DELETE and a signed-url request in flight at once (SpecRace): the     *)
(* signed-url handler awaits between its SELECT and createSignedUrl.       *)
(***************************************************************************)
NextRace ==
    \E s \in Slots :
        \/ ArriveCreate(s, "file", ContributorHeader, MaxServed)
        \/ PostResourcesFile(s, {FileBase})
        \/ Upload(s)
        \/ Insert(s)
        \/ Commit(s)
        \/ Rollback(s)
        \/ Arrive(s, "delete", ContributorHeader)
        \/ DeleteResource(s, MaxServed)
        \/ Arrive(s, "signed", ContributorHeader)
        \/ GetSignedUrl(s, MaxServed)
        \/ CreateSignedUrl(s)

SpecRace == Init /\ [][NextRace]_vars

\* C28 (as claimed): whenever a signed-url request calls createSignedUrl,
\* the row of the resource it asks for does not have is_deleted set.
C28_NeverSignedAfterDelete ==
    [][\A s \in Slots :
         (req[s].pc = "sign" /\ req'[s].pc # "sign")
         => ~resources[req[s].rid].is_deleted]_vars


\* C29: after every step, the storage_path of every file row names an
\* object in the bucket; a file request that has issued its INSERT had
\* its upload return before, without error, and its object is in the
\* bucket; and the row a file request's COMMIT adds has the path that
\* request uploaded to.
C29_RowOnlyAfterUpload ==
    [][/\ \A i \in DOMAIN resources' :
            resources'[i].resource_type = "file"
            => resources'[i].storage_path \in storage'
       /\ \A s \in Slots :
            (req'[s].kind = "file" /\ InLog(req'[s], "INSERT"))
            => /\ Pos(req'[s], "upload") > 0
               /\ Pos(req'[s], "upload") < Pos(req'[s], "INSERT")
               /\ req'[s].error # "File upload failed"
               /\ req'[s].path \in storage'
       /\ \A s \in Slots :
            (req[s].pc = "upload" /\ req'[s].pc = "insert")
            => req[s].path \notin storage /\ req[s].path \in storage'
       /\ \A s \in Slots :
            ( /\ req[s].kind = "file" /\ req[s].pc = "commit"
              /\ req'[s].status = 201 )
            => /\ Len(resources') = Len(resources) + 1
               /\ resources'[Len(resources')].storage_path = req[s].path]_vars

\* two file rows, each with the object its request uploaded before its
\* INSERT, while an upload that failed left no row
C29_Witness ==
    /\ Len(resources) = 2
    /\ \A i \in 1..2 : resources[i].storage_path \in storage
    /\ \E s \in Slots :
         /\ req[s].kind = "file" /\ req[s].status = 201
         /\ Pos(req[s], "upload") < Pos(req[s], "INSERT")
         /\ req[s].data = <<2>>
         /\ resources[2].storage_path = req[s].path
    /\ \E o \in Slots :
         /\ req[o].error = "File upload failed" /\ req[o].pc = "done"


\* C30: a DELETE by an admin or the contributor on a resource that is
\* already soft-deleted is answered as the DELETE that deleted it is, with
\* 200 and no error, and leaves the resources table and the bucket as
\* they were; a DELETE on a live resource differs only in setting the flag.
C30_DeleteIsIdempotent ==
    [][\A s \in Slots :
         ( /\ Answers(s, {"delete"}) /\ Exists(req'[s].rid)
           /\ AdminOrContributor(req'[s].user.id, resources[req'[s].rid]) )
         => /\ req'[s].status = 200 /\ req'[s].error = ""
            /\ req'[s].data = <<>>
            /\ storage' = storage
            /\ resources' = [resources EXCEPT ![req'[s].rid].is_deleted = TRUE]
            /\ resources[req'[s].rid].is_deleted => resources' = resources]_vars

\* two DELETEs of the same resource were both answered 200
C30_Witness ==
    /\ \A s \in Slots :
         /\ req[s].kind = "delete" /\ req[s].pc = "done"
         /\ req[s].status = 200 /\ req[s].rid = 1
    /\ resources[1].is_deleted

====
